---- MODULE Spec2Model ----
(***************************************************************************)
(* Model of homeassistant/util/json.py: load_json, save_json and the       *)
(* helpers they call.  Python values are tagged records, JSON text is a    *)
(* sequence of lexical tokens, the directory of the target file is a       *)
(* function from file names to files.                                      *)
(***************************************************************************)
EXTENDS Integers, Sequences, FiniteSets, TLC

(***************************************************************************)
(* Bounds of the model.                                                    *)
(***************************************************************************)
\* number of times a caller makes its save_json call
MaxCalls == 2
\* number of tokens one OS-level write of the temporary file carries
ChunkSize == 16

(***************************************************************************)
(* Python values.                                                          *)
(***************************************************************************)
PyNone == [t |-> "null"]
PyBool(b) == [t |-> "bool", b |-> b]
PyInt(i) == [t |-> "int", i |-> i]
PyStr(s) == [t |-> "str", s |-> s]
\* a list; items is the sequence of its elements
PyList(items) == [t |-> "list", items |-> items]
\* a dict; items is the sequence of its <<key, value>> pairs in insertion order
PyDict(items) == [t |-> "dict", items |-> items]
\* set(): a value json.dumps cannot encode without an encoder extension
PySet == [t |-> "set"]
\* object(): a value no encoder of the model can encode
PyObject == [t |-> "object"]
\* a tuple used as a mapping key: json.dumps rejects it with TypeError
PyTupleKey == [t |-> "tuple"]

\* str(i) for the integers of the model
IntStr(i) == <<"0", "1", "2">>[i + 1]
Ints == 0..2
Strs == {"a", "b", "x"}
\* the JSON string literal of s
Quote(s) == "\"" \o s \o "\""

\* json.JSONEncoder subclasses a caller may pass: None is the stock encoder,
\* "SetEncoder" has a default() that renders a set as a list
Encoders == {"None", "SetEncoder"}

(***************************************************************************)
(* json.dumps(data, indent=4, cls=encoder)                                 *)
(***************************************************************************)
\* the key of a dict item as the encoder writes it; "" when it raises TypeError
KeyText(k) ==
    CASE k.t = "str" -> Quote(k.s)
      [] k.t = "int" -> Quote(IntStr(k.i))
      [] k.t = "bool" -> Quote(IF k.b THEN "true" ELSE "false")
      [] k.t = "null" -> Quote("null")
      [] OTHER -> ""

RECURSIVE Encodable(_, _)
\* TRUE iff json.dumps(v, cls=enc) returns instead of raising TypeError
Encodable(v, enc) ==
    CASE v.t \in {"null", "bool", "int", "str"} -> TRUE
      [] v.t = "list" -> \A n \in 1..Len(v.items) : Encodable(v.items[n], enc)
      [] v.t = "dict" -> \A n \in 1..Len(v.items) :
                             /\ KeyText(v.items[n][1]) # ""
                             /\ Encodable(v.items[n][2], enc)
      [] v.t = "set" -> enc = "SetEncoder"
      [] OTHER -> FALSE

\* newline followed by the indentation of a nesting level (indent=4)
NewlineIndent(level) == <<"\n">> \o [n \in 1..level |-> "    "]

RECURSIVE Encode(_, _, _)
\* the text json.dumps(v, indent=4, cls=enc) produces for an encodable v
Encode(v, level, enc) ==
    LET RECURSIVE Items(_)
        Items(n) ==
            IF n > Len(v.items) THEN <<>>
            ELSE (IF n > 1 THEN <<",">> ELSE <<>>)
                 \o NewlineIndent(level + 1)
                 \o (IF v.t = "dict"
                     THEN <<KeyText(v.items[n][1]), ": ">>
                          \o Encode(v.items[n][2], level + 1, enc)
                     ELSE Encode(v.items[n], level + 1, enc))
                 \o Items(n + 1)
    IN CASE v.t = "null" -> <<"null">>
         [] v.t = "bool" -> <<IF v.b THEN "true" ELSE "false">>
         [] v.t = "int" -> <<IntStr(v.i)>>
         [] v.t = "str" -> <<Quote(v.s)>>
         [] v.t = "list" ->
              IF v.items = <<>> THEN <<"[", "]">>
              ELSE <<"[">> \o Items(1) \o NewlineIndent(level) \o <<"]">>
         [] v.t = "dict" ->
              IF v.items = <<>> THEN <<"{", "}">>
              ELSE <<"{">> \o Items(1) \o NewlineIndent(level) \o <<"}">>
         [] v.t = "set" -> <<"[", "]">>

\* faulty variant of json_dumps: the text is built from Python's own
\* rendering of the booleans (True/False) instead of JSON's
json_dumps_repr(v, enc) ==
    IF Encodable(v, enc)
    THEN [ok |-> TRUE,
          text |-> [n \in 1..Len(Encode(v, 0, enc)) |->
                       CASE Encode(v, 0, enc)[n] = "true" -> "True"
                         [] Encode(v, 0, enc)[n] = "false" -> "False"
                         [] OTHER -> Encode(v, 0, enc)[n]]]
    ELSE [ok |-> FALSE, exc |-> "TypeError"]

\* json.dumps: the text, or the TypeError it raises
json_dumps(v, enc) ==
    IF Encodable(v, enc)
    THEN [ok |-> TRUE, text |-> Encode(v, 0, enc)]
    ELSE [ok |-> FALSE, exc |-> "TypeError"]

(***************************************************************************)
(* json.loads(text)                                                        *)
(***************************************************************************)
IsWhitespace(tok) == tok \in {"\n", "    ", " "}
IsIntTok(tok) == \E i \in Ints : IntStr(i) = tok
IsStrTok(tok) == \E s \in Strs \cup {"0", "1", "2", "true", "false", "null"} : Quote(s) = tok
ParseIntTok(tok) == CHOOSE i \in Ints : IntStr(i) = tok
Unquote(tok) == CHOOSE s \in Strs \cup {"0", "1", "2", "true", "false", "null"} : Quote(s) = tok

\* d[key] = value on the item sequence of a dict
DictSet(items, k, v) ==
    IF \E n \in 1..Len(items) : items[n][1] = k
    THEN [n \in 1..Len(items) |-> IF items[n][1] = k THEN <<k, v>> ELSE items[n]]
    ELSE Append(items, <<k, v>>)

ParseFail == [ok |-> FALSE]

RECURSIVE ParseValue(_, _)
\* the decoder's scan of one value starting at token p of toks (whitespace
\* already skipped): the value and the position after it, or failure
ParseValue(toks, p) ==
    LET RECURSIVE ListRest(_, _)
        \* after an element: "]" ends the list, "," continues it
        ListRest(acc, q) ==
            IF q > Len(toks) THEN ParseFail
            ELSE IF toks[q] = "]" THEN [ok |-> TRUE, v |-> PyList(acc), next |-> q + 1]
            ELSE IF toks[q] = "," THEN
                LET e == ParseValue(toks, q + 1)
                IN IF e.ok THEN ListRest(Append(acc, e.v), e.next) ELSE ParseFail
            ELSE ParseFail
        RECURSIVE DictItem(_, _)
        RECURSIVE DictRest(_, _)
        \* one "key": value item starting at q
        DictItem(acc, q) ==
            IF q + 1 > Len(toks) THEN ParseFail
            ELSE IF IsStrTok(toks[q]) /\ toks[q + 1] = ": " THEN
                LET e == ParseValue(toks, q + 2)
                IN IF e.ok
                   THEN DictRest(DictSet(acc, PyStr(Unquote(toks[q])), e.v), e.next)
                   ELSE ParseFail
            ELSE ParseFail
        \* after an item: "}" ends the dict, "," continues it
        DictRest(acc, q) ==
            IF q > Len(toks) THEN ParseFail
            ELSE IF toks[q] = "}" THEN [ok |-> TRUE, v |-> PyDict(acc), next |-> q + 1]
            ELSE IF toks[q] = "," THEN DictItem(acc, q + 1)
            ELSE ParseFail
    IN IF p > Len(toks) THEN ParseFail
       ELSE CASE toks[p] = "null" -> [ok |-> TRUE, v |-> PyNone, next |-> p + 1]
              [] toks[p] = "true" -> [ok |-> TRUE, v |-> PyBool(TRUE), next |-> p + 1]
              [] toks[p] = "false" -> [ok |-> TRUE, v |-> PyBool(FALSE), next |-> p + 1]
              [] IsIntTok(toks[p]) -> [ok |-> TRUE, v |-> PyInt(ParseIntTok(toks[p])), next |-> p + 1]
              [] IsStrTok(toks[p]) -> [ok |-> TRUE, v |-> PyStr(Unquote(toks[p])), next |-> p + 1]
              [] toks[p] = "[" ->
                   IF p + 1 <= Len(toks) /\ toks[p + 1] = "]"
                   THEN [ok |-> TRUE, v |-> PyList(<<>>), next |-> p + 2]
                   ELSE LET e == ParseValue(toks, p + 1)
                        IN IF e.ok THEN ListRest(<<e.v>>, e.next) ELSE ParseFail
              [] toks[p] = "{" ->
                   IF p + 1 <= Len(toks) /\ toks[p + 1] = "}"
                   THEN [ok |-> TRUE, v |-> PyDict(<<>>), next |-> p + 2]
                   ELSE DictItem(<<>>, p + 1)
              [] OTHER -> ParseFail

\* json.loads: the decoded value, or the ValueError (JSONDecodeError) it raises
json_loads(text) ==
    LET toks == SelectSeq(text, LAMBDA tok : ~IsWhitespace(tok))
        r == ParseValue(toks, 1)
    IN IF r.ok /\ r.next = Len(toks) + 1
       THEN [ok |-> TRUE, v |-> r.v]
       ELSE [ok |-> FALSE, exc |-> "ValueError"]

(***************************************************************************)
(* The directory of the target file.                                       *)
(***************************************************************************)
\* permission bits 0o600: what tempfile creates a file with
MODE_0600 == 384
\* permission bits 0o644: what save_json widens a non-private file to
MODE_0644 == 420

\* the `filename` every call of the model is made with
TargetPath == "config.json"
\* the names tempfile.NamedTemporaryFile can pick in the directory
TmpNames == {"tmp_a", "tmp_b"}
Names == {TargetPath} \cup TmpNames

NoFile == [exists |-> FALSE]
File(content, mode) == [exists |-> TRUE, content |-> content, mode |-> mode]

\* os.path.exists(name); the empty name never exists
Exists(f, name) == name \in Names /\ f[name].exists

\* faulty variant of ReplaceFile: the text is appended to an existing
\* destination instead of replacing it
ReplaceAppend(f, src, dst) ==
    [f EXCEPT ![dst] = IF f[dst].exists
                       THEN [exists |-> TRUE, content |-> f[dst].content \o f[src].content,
                             mode |-> f[src].mode]
                       ELSE f[src],
              ![src] = [exists |-> FALSE]]

\* faulty variant of ReplaceFile: the text is copied into an existing
\* destination, which keeps its own permission bits
ReplaceKeepMode(f, src, dst) ==
    [f EXCEPT ![dst] = IF f[dst].exists THEN [exists |-> TRUE, content |-> f[src].content,
                                              mode |-> f[dst].mode]
                       ELSE f[src],
              ![src] = [exists |-> FALSE]]

\* os.replace(src, dst): dst becomes the file src named, src is gone
ReplaceFile(f, src, dst) == [f EXCEPT ![dst] = f[src], ![src] = NoFile]

\* os.remove(name)
RemoveFile(f, name) == [f EXCEPT ![name] = NoFile]

\* the next OS-level write of a buffered text: up to ChunkSize more tokens
NextChunk(text, written) ==
    SubSeq(text, written + 1, IF written + ChunkSize < Len(text)
                              THEN written + ChunkSize ELSE Len(text))

\* the file after `chunk` is appended to it
AppendToFile(f, name, chunk) ==
    [f EXCEPT ![name] = File(f[name].content \o chunk, f[name].mode)]

(***************************************************************************)
(* The values the callers of the model pass.                               *)
(***************************************************************************)
DocEmpty == PyDict(<<>>)
DocFlat == PyDict(<< <<PyStr("a"), PyInt(1)>> >>)
DocNested == PyDict(<< <<PyStr("a"), PyList(<<PyBool(TRUE), PyDict(<< <<PyStr("b"), PyStr("x")>> >>)>>)>> >>)
DocList == PyList(<<PyInt(2), PyNone>>)
\* encodable, but its key is not a string
DataIntKey == PyDict(<< <<PyInt(1), PyStr("x")>> >>)
\* encodable only by an encoder that knows sets
DataSet == PyList(<<PySet>>)
\* the partially bad structure: $.a[1] and $.a[2].b cannot be encoded
DataBad == PyDict(<< <<PyStr("a"), PyList(<<PyInt(1), PySet, PyDict(<< <<PyStr("b"), PyObject>> >>)>>)>> >>)

SaveInputs == {DocNested, DocList, DataIntKey, DataSet, DataBad}

\* the `default` arguments of load_json; PyNone is "no default supplied"
Defaults == {PyNone, PyList(<<>>), PyDict(<< <<PyStr("x"), PyInt(1)>> >>)}

\* what may be at the target path before the first call
InitialFiles ==
    { NoFile,
      File(Encode(DocFlat, 0, "None"), MODE_0644),
      \* 0o666: a file another tool wrote world-writable
      File(Encode(DocList, 0, "None"), MODE_0644 + 18),
      File(<<"{", "not json">>, MODE_0600) }

(***************************************************************************)
(* find_paths_unserializable_data and format_unserializable_data           *)
(***************************************************************************)
\* an object with an as_dict method: cls is its class name, ident its
\* entity_id (State) or event_type (Event), as_dict what as_dict() returns
PyConvertible(cls, ident, as_dict) ==
    [t |-> "convertible", cls |-> cls, ident |-> ident, as_dict |-> as_dict]

\* str(v) of a key or of a reported value
PyStrOf(v) ==
    CASE v.t = "null" -> "None"
      [] v.t = "bool" -> IF v.b THEN "True" ELSE "False"
      [] v.t = "int" -> IntStr(v.i)
      [] v.t = "str" -> v.s
      [] v.t = "set" -> "set()"
      [] v.t = "tuple" -> "(1, 2)"
      [] OTHER -> "<object object>"

\* str(type(v)) of a reported value
PyTypeOf(v) ==
    CASE v.t = "null" -> "<class 'NoneType'>"
      [] v.t = "bool" -> "<class 'bool'>"
      [] v.t = "int" -> "<class 'int'>"
      [] v.t = "str" -> "<class 'str'>"
      [] v.t = "set" -> "<class 'set'>"
      [] v.t = "tuple" -> "<class 'tuple'>"
      [] OTHER -> "<class 'object'>"

\* faulty variant of FindPathsStep: the dequeued node is not test-encoded,
\* so every node is descended into and every scalar is recorded
FindPathsStepNoSkip(to_process, invalid) ==
    LET head == Head(to_process)
        rest == Tail(to_process)
        convertible == head[1].t = "convertible"
        desc == head[1].cls \o
                (IF head[1].cls \in {"State", "Event"} THEN ": " \o head[1].ident ELSE "")
        obj_path == IF convertible THEN head[2] \o "(" \o desc \o ")" ELSE head[2]
        obj == IF convertible THEN head[1].as_dict ELSE head[1]
        RECURSIVE Keys(_, _, _)
        Keys(n, queue, report) ==
            IF n > Len(obj.items) THEN [to_process |-> queue, invalid |-> report]
            ELSE LET key == obj.items[n][1]
                     value == obj.items[n][2]
                 IN IF KeyText(key) = ""
                    THEN Keys(n + 1, queue,
                              DictSet(report, obj_path \o "<key: " \o PyStrOf(key) \o ">", key))
                    ELSE Keys(n + 1,
                              Append(queue, <<value, obj_path \o "." \o PyStrOf(key)>>),
                              report)
    IN CASE obj.t = "dict" -> Keys(1, rest, invalid)
         [] obj.t = "list" ->
              [to_process |-> rest \o [n \in 1..Len(obj.items) |->
                                <<obj.items[n], obj_path \o "[" \o IntStr(n - 1) \o "]">>],
               invalid |-> invalid]
         [] OTHER ->
              [to_process |-> rest, invalid |-> DictSet(invalid, obj_path, obj)]

\* faulty variant of FindPathsStep: an object with as_dict is not converted
\* but recorded as it is
FindPathsStepLeafConvertible(to_process, invalid) ==
    LET head == Head(to_process)
        rest == Tail(to_process)
        obj_path == head[2]
        obj == head[1]
        RECURSIVE Keys(_, _, _)
        Keys(n, queue, report) ==
            IF n > Len(obj.items) THEN [to_process |-> queue, invalid |-> report]
            ELSE LET key == obj.items[n][1]
                     value == obj.items[n][2]
                 IN IF KeyText(key) = ""
                    THEN Keys(n + 1, queue,
                              DictSet(report, obj_path \o "<key: " \o PyStrOf(key) \o ">", key))
                    ELSE Keys(n + 1,
                              Append(queue, <<value, obj_path \o "." \o PyStrOf(key)>>),
                              report)
    IN IF Encodable(head[1], "None")
       THEN [to_process |-> rest, invalid |-> invalid]
       ELSE CASE obj.t = "dict" -> Keys(1, rest, invalid)
              [] obj.t = "list" ->
                   [to_process |-> rest \o [n \in 1..Len(obj.items) |->
                                     <<obj.items[n], obj_path \o "[" \o IntStr(n - 1) \o "]">>],
                    invalid |-> invalid]
              [] OTHER ->
                   [to_process |-> rest, invalid |-> DictSet(invalid, obj_path, obj)]

\* faulty variant of FindPathsStep: the value under an invalid key is
\* enqueued as well
FindPathsStepExamineAll(to_process, invalid) ==
    LET head == Head(to_process)
        rest == Tail(to_process)
        convertible == head[1].t = "convertible"
        desc == head[1].cls \o
                (IF head[1].cls \in {"State", "Event"} THEN ": " \o head[1].ident ELSE "")
        obj_path == IF convertible THEN head[2] \o "(" \o desc \o ")" ELSE head[2]
        obj == IF convertible THEN head[1].as_dict ELSE head[1]
        RECURSIVE Keys(_, _, _)
        Keys(n, queue, report) ==
            IF n > Len(obj.items) THEN [to_process |-> queue, invalid |-> report]
            ELSE LET key == obj.items[n][1]
                     value == obj.items[n][2]
                 IN Keys(n + 1,
                         Append(queue, <<value, obj_path \o "." \o PyStrOf(key)>>),
                         IF KeyText(key) = ""
                         THEN DictSet(report, obj_path \o "<key: " \o PyStrOf(key) \o ">", key)
                         ELSE report)
    IN IF Encodable(head[1], "None")
       THEN [to_process |-> rest, invalid |-> invalid]
       ELSE CASE obj.t = "dict" -> Keys(1, rest, invalid)
              [] obj.t = "list" ->
                   [to_process |-> rest \o [n \in 1..Len(obj.items) |->
                                     <<obj.items[n], obj_path \o "[" \o IntStr(n - 1) \o "]">>],
                    invalid |-> invalid]
              [] OTHER ->
                   [to_process |-> rest, invalid |-> DictSet(invalid, obj_path, obj)]

\* one iteration of the while loop: the head of to_process is taken and
\* tested; the queue and the report after the iteration
FindPathsStep(to_process, invalid) ==
    LET head == Head(to_process)
        rest == Tail(to_process)
        convertible == head[1].t = "convertible"
        desc == head[1].cls \o
                (IF head[1].cls \in {"State", "Event"} THEN ": " \o head[1].ident ELSE "")
        obj_path == IF convertible THEN head[2] \o "(" \o desc \o ")" ELSE head[2]
        obj == IF convertible THEN head[1].as_dict ELSE head[1]
        RECURSIVE Keys(_, _, _)
        \* the loop over obj.items() from item n on
        Keys(n, queue, report) ==
            IF n > Len(obj.items) THEN [to_process |-> queue, invalid |-> report]
            ELSE LET key == obj.items[n][1]
                     value == obj.items[n][2]
                 IN IF KeyText(key) = ""
                    THEN Keys(n + 1, queue,
                              DictSet(report, obj_path \o "<key: " \o PyStrOf(key) \o ">", key))
                    ELSE Keys(n + 1,
                              Append(queue, <<value, obj_path \o "." \o PyStrOf(key)>>),
                              report)
    IN IF Encodable(head[1], "None")
       THEN [to_process |-> rest, invalid |-> invalid]
       ELSE CASE obj.t = "dict" -> Keys(1, rest, invalid)
              [] obj.t = "list" ->
                   [to_process |-> rest \o [n \in 1..Len(obj.items) |->
                                     <<obj.items[n], obj_path \o "[" \o IntStr(n - 1) \o "]">>],
                    invalid |-> invalid]
              [] OTHER ->
                   [to_process |-> rest, invalid |-> DictSet(invalid, obj_path, obj)]

RECURSIVE FindPathsLoop(_, _)
\* the while loop, run until to_process is empty
FindPathsLoop(to_process, invalid) ==
    IF to_process = <<>> THEN invalid
    ELSE LET s == FindPathsStep(to_process, invalid)
         IN FindPathsLoop(s.to_process, s.invalid)

\* the report: the sequence of <<path, value>> entries in insertion order
find_paths_unserializable_data(bad_data) == FindPathsLoop(<< <<bad_data, "$">> >>, <<>>)

RECURSIVE format_unserializable_data(_)
\* ", ".join(f"{path}={value}({type(value)}" for path, value in data.items())
format_unserializable_data(data) ==
    IF data = <<>> THEN ""
    ELSE data[1][1] \o "=" \o PyStrOf(data[1][2]) \o "(" \o PyTypeOf(data[1][2])
         \o (IF Len(data) > 1 THEN ", " \o format_unserializable_data(Tail(data)) ELSE "")

\* the message of the SerializationError save_json raises for data
SerializationMsg(data) ==
    "Failed to serialize to JSON: " \o TargetPath \o ". Bad data at "
    \o format_unserializable_data(find_paths_unserializable_data(data))

(***************************************************************************)
(* Faulty variants of load_json.                                           *)
(***************************************************************************)
\* `return default or {}`: a supplied empty default is replaced by {}
load_json_falsy_default(f, default, io_fault) ==
    LET existed == f[TargetPath].exists
        parsed == json_loads(f[TargetPath].content)
        outcome(raised, value, from_default, errtype, cause) ==
            [called |-> TRUE, raised |-> raised, value |-> value,
             from_default |-> from_default, errtype |-> errtype, cause |-> cause,
             default |-> IF from_default THEN default ELSE PyNone,
             existed |-> existed, io_fault |-> raised /\ io_fault]
    IN IF ~existed
       THEN outcome(FALSE, IF default \in {PyNone, PyList(<<>>), PyDict(<<>>)}
                           THEN PyDict(<<>>) ELSE default, TRUE, "", "")
       ELSE IF io_fault
       THEN outcome(TRUE, PyNone, FALSE, "HomeAssistantError", "OSError")
       ELSE IF ~parsed.ok
       THEN outcome(TRUE, PyNone, FALSE, "HomeAssistantError", parsed.exc)
       ELSE outcome(FALSE, parsed.v, FALSE, "", "")

\* the `except OSError` clause is missing: the OSError reaches the caller
load_json_unwrapped(f, default, io_fault) ==
    LET existed == f[TargetPath].exists
        parsed == json_loads(f[TargetPath].content)
        outcome(raised, value, from_default, errtype, cause) ==
            [called |-> TRUE, raised |-> raised, value |-> value,
             from_default |-> from_default, errtype |-> errtype, cause |-> cause,
             default |-> IF from_default THEN default ELSE PyNone,
             existed |-> existed, io_fault |-> raised /\ io_fault]
    IN IF ~existed
       THEN outcome(FALSE, IF default = PyNone THEN PyDict(<<>>) ELSE default,
                    TRUE, "", "")
       ELSE IF io_fault
       THEN outcome(TRUE, PyNone, FALSE, "OSError", "")
       ELSE IF ~parsed.ok
       THEN outcome(TRUE, PyNone, FALSE, "HomeAssistantError", parsed.exc)
       ELSE outcome(FALSE, parsed.v, FALSE, "", "")

(***************************************************************************)
(* load_json                                                               *)
(***************************************************************************)
\* what load_json(TargetPath, default) does on directory f; io_fault says
\* whether opening or reading an existing file raises OSError.  The result
\* records the return value or the raised error (its type and the error it
\* wraps), whether the file existed, whether the I/O fault happened, and the
\* default when it was the default that was returned.
load_json(f, default, io_fault) ==
    LET existed == Exists(f, TargetPath)
        parsed == json_loads(f[TargetPath].content)
        outcome(raised, value, from_default, errtype, cause) ==
            [called |-> TRUE, raised |-> raised, value |-> value,
             from_default |-> from_default, errtype |-> errtype, cause |-> cause,
             default |-> IF from_default THEN default ELSE PyNone,
             existed |-> existed, io_fault |-> raised /\ io_fault]
    IN IF ~existed
       THEN \* FileNotFoundError: logged, then the default is returned
            outcome(FALSE, IF default = PyNone THEN PyDict(<<>>) ELSE default,
                    TRUE, "", "")
       ELSE IF io_fault
       THEN outcome(TRUE, PyNone, FALSE, "HomeAssistantError", "OSError")
       ELSE IF ~parsed.ok
       THEN outcome(TRUE, PyNone, FALSE, "HomeAssistantError", parsed.exc)
       ELSE outcome(FALSE, parsed.v, FALSE, "", "")

NotLoaded ==
    [called |-> FALSE, raised |-> FALSE, value |-> PyNone, from_default |-> FALSE,
     errtype |-> "", cause |-> "", default |-> PyNone, existed |-> FALSE,
     io_fault |-> FALSE]

(***************************************************************************)
(* State.                                                                  *)
(***************************************************************************)
VARIABLES
    fs,        \* the directory: file name -> file
    callers,   \* the callers of save_json that exist
    sv,        \* per caller: the frame of its save_json call
    loaded,    \* the outcome of the latest load_json call
    raised,    \* the <<failure, error type>> pairs load_json has raised so far
    dg         \* the frame of a find_paths_unserializable_data call

vars == <<fs, callers, sv, loaded, raised, dg>>

\* the frame of a caller that is not inside save_json
IdleFrame(calls) ==
    [pc |-> "idle",
     data |-> PyNone, private |-> FALSE, encoder |-> "None",
     json_data |-> <<>>,        \* the serialized text
     fdesc |-> "",              \* fdesc.name, "" while no temporary file is open
     tmp_filename |-> "",
     error |-> "",              \* the exception in flight
     cause |-> "",              \* the error the exception in flight wraps
     result |-> "",             \* how the call ended: "ok" or the error raised
     msg |-> "",                \* the message of the error raised
     fault |-> "",              \* the step whose I/O failed
     cleanup_error |-> FALSE,   \* "JSON replacement cleanup failed" was logged
     replaced |-> 0,            \* n when this call's os.replace was the n-th to succeed
     prev_result |-> "",        \* how the caller's previous call ended
     fs_before |-> [n \in Names |-> NoFile],  \* the directory when the call began
     calls |-> calls]           \* calls made so far

\* no find_paths_unserializable_data call is being followed
DiagIdle == [pc |-> "idle"]

Init ==
    /\ \E file \in InitialFiles :
           fs = [n \in Names |-> IF n = TargetPath THEN file ELSE NoFile]
    /\ callers = {1}
    /\ sv = [c \in {1, 2} |-> IdleFrame(0)]
    /\ loaded = NotLoaded
    /\ raised = {}
    /\ dg = DiagIdle

\* caller c's frame with the fields of `changes` replaced
Frame(c, changes) ==
    [sv EXCEPT ![c] = [k \in DOMAIN sv[c] |->
                          IF k \in DOMAIN changes THEN changes[k] ELSE sv[c][k]]]

(***************************************************************************)
(* save_json, one action per step of the call.                             *)
(***************************************************************************)
\* the frame of a call that has just been entered
EntryFrame(calls, data, private, encoder) ==
    [IdleFrame(calls) EXCEPT !.pc = "dumps", !.data = data, !.private = private,
                             !.encoder = encoder, !.fs_before = fs]

\* a caller enters save_json(TargetPath, data, private, encoder=encoder)
SaveCall(c, data, private, encoder) ==
    /\ sv[c].pc = "idle"
    /\ sv' = [sv EXCEPT ![c] = EntryFrame(1, data, private, encoder)]
    /\ UNCHANGED <<fs, callers, loaded, raised, dg>>

\* a caller whose call has ended makes the same call again
SaveAgain(c) ==
    /\ sv[c].pc = "done"
    /\ sv[c].calls < MaxCalls
    /\ sv' = [sv EXCEPT ![c] = [EntryFrame(sv[c].calls + 1, sv[c].data,
                                           sv[c].private, sv[c].encoder)
                                    EXCEPT !.prev_result = sv[c].result]]
    /\ UNCHANGED <<fs, callers, loaded, raised, dg>>

\* faulty variant of Serialize: the temporary file is created before the
\* data is serialized, so a failed serialization leaves it behind
SerializeAfterCreate(c) ==
    /\ sv[c].pc = "dumps"
    /\ LET r == json_dumps(sv[c].data, sv[c].encoder)
       IN IF r.ok
          THEN /\ sv' = [sv EXCEPT ![c].pc = "mktemp", ![c].json_data = r.text]
               /\ fs' = fs
          ELSE /\ sv' = [sv EXCEPT ![c].pc = "done", ![c].error = "SerializationError",
                                   ![c].cause = r.exc,
                                   ![c].result = "SerializationError",
                                   ![c].msg = SerializationMsg(sv[c].data)]
               /\ fs' = [fs EXCEPT !["tmp_a"] = File(<<>>, MODE_0600)]
    /\ UNCHANGED <<callers, loaded, raised, dg>>

\* json.dumps(data, indent=4, cls=encoder); on TypeError the call ends with
\* SerializationError(msg)
Serialize(c) ==
    /\ sv[c].pc = "dumps"
    /\ LET r == json_dumps(sv[c].data, sv[c].encoder)
       IN IF r.ok
          THEN sv' = Frame(c, [pc |-> "mktemp", json_data |-> r.text, tmp_filename |-> ""])
          ELSE sv' = Frame(c, [pc |-> "done", error |-> "SerializationError",
                               cause |-> r.exc, result |-> "SerializationError",
                               msg |-> SerializationMsg(sv[c].data)])
    /\ UNCHANGED <<fs, callers, loaded, raised, dg>>

\* an I/O step of caller c raises OSError
RaiseOSError(c, step) ==
    /\ sv' = Frame(c, [pc |-> "except", error |-> "OSError", fault |-> step])
    /\ UNCHANGED <<fs, callers, loaded, raised, dg>>

\* faulty variant of CreateTempOk: the temporary file has a fixed name and is
\* opened for writing whether or not it exists
CreateTempFixedName(c) ==
    /\ sv[c].pc = "mktemp"
    /\ fs' = [fs EXCEPT !["tmp_a"] = File(<<>>, MODE_0600)]
    /\ sv' = [sv EXCEPT ![c].pc = "write", ![c].fdesc = "tmp_a"]
    /\ UNCHANGED <<callers, loaded, raised, dg>>

\* tempfile.NamedTemporaryFile(dir=tmp_path, delete=False) creates a new,
\* empty file with mode 0o600 under a name that does not exist yet
CreateTempOk(c) ==
    /\ sv[c].pc = "mktemp"
    /\ \E name \in TmpNames :
           /\ ~Exists(fs, name)
           /\ fs' = [fs EXCEPT ![name] = File(<<>>, MODE_0600)]
           /\ sv' = Frame(c, [pc |-> "write", fdesc |-> name])
    /\ UNCHANGED <<callers, loaded, raised, dg>>

\* tempfile.NamedTemporaryFile raises OSError; no file is created
CreateTempFail(c) ==
    /\ sv[c].pc = "mktemp"
    /\ RaiseOSError(c, "create")

\* part of the buffered text reaches the file, during fdesc.write or while
\* the file is being closed; what is written to a file that has been
\* unlinked meanwhile is seen by nobody
Flush(c) ==
    /\ sv[c].pc \in {"write", "close"}
    /\ Exists(fs, sv[c].fdesc)
    /\ Len(fs[sv[c].fdesc].content) < Len(sv[c].json_data)
    /\ fs' = AppendToFile(fs, sv[c].fdesc,
                          NextChunk(sv[c].json_data, Len(fs[sv[c].fdesc].content)))
    /\ UNCHANGED <<callers, sv, loaded, raised, dg>>

\* faulty variant of WriteReturn: the file is renamed inside the with block,
\* while part of the text may still be in the buffer
WriteReturnThenReplace(c) ==
    /\ sv[c].pc = "write"
    /\ sv' = [sv EXCEPT ![c].pc = "replace", ![c].tmp_filename = sv[c].fdesc]
    /\ UNCHANGED <<fs, callers, loaded, raised, dg>>

\* fdesc.write(json_data) returns; tmp_filename = fdesc.name
WriteReturn(c) ==
    /\ sv[c].pc = "write"
    /\ sv' = Frame(c, [pc |-> "close", tmp_filename |-> sv[c].fdesc])
    /\ UNCHANGED <<fs, callers, loaded, raised, dg>>

\* fdesc.write(json_data) raises OSError; tmp_filename is still ""
WriteFail(c) ==
    /\ sv[c].pc = "write"
    /\ RaiseOSError(c, "write")

\* the with block ends: the file is closed once all the text is in it
CloseOk(c) ==
    /\ sv[c].pc = "close"
    /\ Exists(fs, sv[c].fdesc) => Len(fs[sv[c].fdesc].content) = Len(sv[c].json_data)
    /\ sv' = Frame(c, [pc |-> "chmod"])
    /\ UNCHANGED <<fs, callers, loaded, raised, dg>>

\* closing the file raises OSError
CloseFail(c) ==
    /\ sv[c].pc = "close"
    /\ RaiseOSError(c, "close")

\* faulty variant of ChmodSkip: the temporary file is widened to 0o644
\* although the call is private
ChmodSkipWidens(c) ==
    /\ sv[c].pc = "chmod"
    /\ sv[c].private
    /\ fs' = [fs EXCEPT ![sv[c].tmp_filename].mode = MODE_0644]
    /\ sv' = Frame(c, [pc |-> "replace"])
    /\ UNCHANGED <<callers, loaded, raised, dg>>

\* if not private: os.chmod(tmp_filename, 0o644)
ChmodSkip(c) ==
    /\ sv[c].pc = "chmod"
    /\ sv[c].private
    /\ sv' = Frame(c, [pc |-> "replace"])
    /\ UNCHANGED <<fs, callers, loaded, raised, dg>>

ChmodOk(c) ==
    /\ sv[c].pc = "chmod"
    /\ ~sv[c].private
    /\ Exists(fs, sv[c].tmp_filename)
    /\ fs' = [fs EXCEPT ![sv[c].tmp_filename] = File(@.content, MODE_0644)]
    /\ sv' = Frame(c, [pc |-> "replace"])
    /\ UNCHANGED <<callers, loaded, raised, dg>>

\* faulty variant of ChmodFail: the error of os.chmod is ignored
ChmodFailIgnored(c) ==
    /\ sv[c].pc = "chmod"
    /\ ~sv[c].private
    /\ sv' = [sv EXCEPT ![c].pc = "replace", ![c].fault = "chmod"]
    /\ UNCHANGED <<fs, callers, loaded, raised, dg>>

\* os.chmod(tmp_filename, 0o644) raises OSError
ChmodFail(c) ==
    /\ sv[c].pc = "chmod"
    /\ ~sv[c].private
    /\ RaiseOSError(c, "chmod")

\* os.replace(tmp_filename, filename)
ReplaceOk(c) ==
    /\ sv[c].pc = "replace"
    /\ Exists(fs, sv[c].tmp_filename)
    /\ fs' = ReplaceFile(fs, sv[c].tmp_filename, TargetPath)
    /\ sv' = Frame(c, [pc |-> "finally",
                       replaced |-> 1 + Cardinality({d \in callers : sv[d].replaced > 0})])
    /\ UNCHANGED <<callers, loaded, raised, dg>>

\* faulty variant of ReplaceFail: the destination was unlinked before the
\* rename that then failed
ReplaceFailUnlinked(c) ==
    /\ sv[c].pc = "replace"
    /\ fs' = [fs EXCEPT ![TargetPath] = [exists |-> FALSE]]
    /\ sv' = [sv EXCEPT ![c].pc = "except", ![c].error = "OSError", ![c].fault = "replace"]
    /\ UNCHANGED <<callers, loaded, raised, dg>>

\* os.replace(tmp_filename, filename) raises OSError; nothing is renamed
ReplaceFail(c) ==
    /\ sv[c].pc = "replace"
    /\ RaiseOSError(c, "replace")

\* except OSError as error: log, raise WriteError(error) from error
Except(c) ==
    /\ sv[c].pc = "except"
    /\ sv' = Frame(c, [pc |-> "finally", error |-> "WriteError", cause |-> sv[c].error])
    /\ UNCHANGED <<fs, callers, loaded, raised, dg>>

\* the call ends: normally, or with the exception in flight
Finish(c, cleanup_error) ==
    sv' = Frame(c, [pc |-> "done", cleanup_error |-> cleanup_error,
                    result |-> IF sv[c].error = "" THEN "ok" ELSE sv[c].error])

\* finally: os.path.exists(tmp_filename) is False
FinallySkip(c) ==
    /\ sv[c].pc = "finally"
    /\ ~Exists(fs, sv[c].tmp_filename)
    /\ Finish(c, FALSE)
    /\ UNCHANGED <<fs, callers, loaded, raised, dg>>

\* finally: os.remove(tmp_filename)
FinallyRemoveOk(c) ==
    /\ sv[c].pc = "finally"
    /\ Exists(fs, sv[c].tmp_filename)
    /\ fs' = RemoveFile(fs, sv[c].tmp_filename)
    /\ Finish(c, FALSE)
    /\ UNCHANGED <<callers, loaded, raised, dg>>

\* faulty variant of FinallyRemoveFail: the OSError of os.remove is not
\* caught and replaces the outcome of the call
FinallyRemoveFailRaises(c) ==
    /\ sv[c].pc = "finally"
    /\ Exists(fs, sv[c].tmp_filename)
    /\ sv' = [sv EXCEPT ![c].pc = "done", ![c].cleanup_error = TRUE,
                        ![c].result = "OSError"]
    /\ UNCHANGED <<fs, callers, loaded, raised, dg>>

\* finally: os.remove(tmp_filename) raises OSError, which is logged
FinallyRemoveFail(c) ==
    /\ sv[c].pc = "finally"
    /\ Exists(fs, sv[c].tmp_filename)
    /\ Finish(c, TRUE)
    /\ UNCHANGED <<fs, callers, loaded, raised, dg>>

\* the process dies (crash, power loss) between two steps of the call
Crash(c) ==
    /\ sv[c].pc \in {"mktemp", "write", "close", "chmod", "replace", "except", "finally"}
    /\ sv' = Frame(c, [pc |-> "crashed"])
    /\ UNCHANGED <<fs, callers, loaded, raised, dg>>

(***************************************************************************)
(* A reader calls load_json(TargetPath, default).                          *)
(***************************************************************************)
Load(default, io_fault) ==
    /\ loaded' = load_json(fs, default, io_fault)
    /\ raised' = IF loaded'.raised
                 THEN raised \cup {<<IF loaded'.io_fault THEN "unreadable" ELSE "corrupt",
                                     loaded'.errtype>>}
                 ELSE raised
    /\ UNCHANGED <<fs, callers, sv, dg>>

Next ==
    \/ \E c \in callers, data \in SaveInputs, private \in BOOLEAN, encoder \in Encoders :
           SaveCall(c, data, private, encoder)
    \/ \E c \in callers : Serialize(c)
    \/ \E c \in callers : CreateTempOk(c)
    \/ \E c \in callers : CreateTempFail(c)
    \/ \E c \in callers : Flush(c)
    \/ \E c \in callers : WriteReturn(c)
    \/ \E c \in callers : WriteFail(c)
    \/ \E c \in callers : CloseOk(c)
    \/ \E c \in callers : CloseFail(c)
    \/ \E c \in callers : ChmodSkip(c)
    \/ \E c \in callers : ChmodOk(c)
    \/ \E c \in callers : ChmodFail(c)
    \/ \E c \in callers : ReplaceOk(c)
    \/ \E c \in callers : ReplaceFail(c)
    \/ \E c \in callers : Except(c)
    \/ \E c \in callers : FinallySkip(c)
    \/ \E c \in callers : FinallyRemoveOk(c)
    \/ \E c \in callers : FinallyRemoveFail(c)
    \/ \E c \in callers : SaveAgain(c)
    \/ \E c \in callers : Crash(c)
    \/ \E default \in Defaults, io_fault \in BOOLEAN : Load(default, io_fault)

Spec == Init /\ [][Next]_vars

(***************************************************************************)
(* Two independent callers, each making one save_json call on the same     *)
(* path, their steps interleaved in any order.                             *)
(***************************************************************************)
\* the values the two callers pass
ConcInputs == {DocNested, DocList}

InitConc ==
    /\ \E file \in {NoFile, File(Encode(DocFlat, 0, "None"), MODE_0644)} :
           fs = [n \in Names |-> IF n = TargetPath THEN file ELSE NoFile]
    /\ callers = {1, 2}
    /\ sv = [c \in {1, 2} |-> IdleFrame(0)]
    /\ loaded = NotLoaded
    /\ raised = {}
    /\ dg = DiagIdle

NextConc ==
    \/ \E c \in callers, data \in ConcInputs, private \in BOOLEAN :
           SaveCall(c, data, private, "None")
    \/ \E c \in callers : Serialize(c)
    \/ \E c \in callers : CreateTempOk(c)
    \/ \E c \in callers : CreateTempFail(c)
    \/ \E c \in callers : Flush(c)
    \/ \E c \in callers : WriteReturn(c)
    \/ \E c \in callers : WriteFail(c)
    \/ \E c \in callers : CloseOk(c)
    \/ \E c \in callers : CloseFail(c)
    \/ \E c \in callers : ChmodSkip(c)
    \/ \E c \in callers : ChmodOk(c)
    \/ \E c \in callers : ChmodFail(c)
    \/ \E c \in callers : ReplaceOk(c)
    \/ \E c \in callers : ReplaceFail(c)
    \/ \E c \in callers : Except(c)
    \/ \E c \in callers : FinallySkip(c)
    \/ \E c \in callers : FinallyRemoveOk(c)
    \/ \E c \in callers : FinallyRemoveFail(c)

SpecConc == InitConc /\ [][NextConc]_vars

(***************************************************************************)
(* find_paths_unserializable_data as save_json calls it, one action per    *)
(* iteration of its loop.                                                  *)
(***************************************************************************)
\* the leaves the elements of the generated inputs are drawn from
DiagLeaves == {PyInt(1), PySet, PyObject, PyList(<<PyInt(2), PyStr("x")>>)}

\* a State whose as_dict() holds a value that cannot be encoded
StateBad == PyConvertible("State", "x", PyDict(<< <<PyStr("a"), PyInt(1)>>,
                                                  <<PyStr("b"), PyObject>> >>))
\* an Event whose as_dict() has a tuple as a key
EventBadKey == PyConvertible("Event", "x", PyDict(<< <<PyTupleKey, PyInt(1)>>,
                                                     <<PyStr("b"), PySet>> >>))
\* an object of another class whose as_dict() encodes
OtherGood == PyConvertible("Other", "", PyDict(<< <<PyStr("a"), PyInt(1)>>,
                                                  <<PyStr("b"), PyList(<<PyNone>>)>> >>))

\* the values save_json is called with in the diagnosis runs
DiagInputs ==
    {DataBad, DataSet, DocNested, PySet, PyObject, StateBad}
    \cup {PyList(<<x, y>>) : x, y \in DiagLeaves}
    \cup {PyDict(<< <<PyStr("a"), x>>, <<PyStr("b"), PyList(<<y>>)>> >>) :
              x \in {StateBad, OtherGood, EventBadKey}, y \in {PySet, PyInt(0)}}
    \cup {PyDict(<< <<k, PyObject>>, <<PyStr("a"), x>> >>) :
              k \in {PyTupleKey, PyInt(1), PyStr("b")}, x \in {PySet, PyBool(TRUE)}}

InitDiag ==
    /\ fs = [n \in Names |-> NoFile]
    /\ callers = {1}
    /\ sv = [c \in {1, 2} |-> IdleFrame(0)]
    /\ loaded = NotLoaded
    /\ raised = {}
    /\ dg = DiagIdle

\* json.dumps(data, cls=encoder) raised TypeError in save_json, which calls
\* find_paths_unserializable_data(data); dump is left at its default, the
\* stock json.dumps
DiagCall(data, encoder) ==
    /\ dg.pc = "idle"
    /\ ~Encodable(data, encoder)
    /\ dg' = [pc |-> "loop",
              bad_data |-> data,
              encoder |-> encoder,                \* the encoder save_json was given
              to_process |-> << <<data, "$">> >>,
              invalid |-> <<>>,
              dequeued |-> <<>>,                  \* the pairs popped so far, in order
              enqueued |-> {<<data, "$">>}]       \* every pair ever put on the queue
    /\ UNCHANGED <<fs, callers, sv, loaded, raised>>

\* faulty variant of DiagStep: a node popped for the first time is put back
\* at the end of the queue
DiagStepRevisit ==
    /\ dg.pc = "loop"
    /\ dg.to_process # <<>>
    /\ LET s == FindPathsStep(dg.to_process, dg.invalid)
           new == SubSeq(s.to_process, Len(dg.to_process), Len(s.to_process))
           again == IF \E n \in DOMAIN dg.dequeued : dg.dequeued[n] = Head(dg.to_process)
                    THEN <<>> ELSE <<Head(dg.to_process)>>
       IN dg' = [dg EXCEPT !.to_process = s.to_process \o again,
                           !.invalid = s.invalid,
                           !.dequeued = Append(@, Head(dg.to_process)),
                           !.enqueued = @ \cup {new[n] : n \in DOMAIN new}]
    /\ UNCHANGED <<fs, callers, sv, loaded, raised>>

\* one iteration of `while to_process:`
DiagStep ==
    /\ dg.pc = "loop"
    /\ dg.to_process # <<>>
    /\ LET s == FindPathsStep(dg.to_process, dg.invalid)
           new == SubSeq(s.to_process, Len(dg.to_process), Len(s.to_process))
       IN dg' = [dg EXCEPT !.to_process = s.to_process,
                           !.invalid = s.invalid,
                           !.dequeued = Append(@, Head(dg.to_process)),
                           !.enqueued = @ \cup {new[n] : n \in DOMAIN new}]
    /\ UNCHANGED <<fs, callers, sv, loaded, raised>>

\* the queue is empty: return invalid
DiagReturn ==
    /\ dg.pc = "loop"
    /\ dg.to_process = <<>>
    /\ dg' = [dg EXCEPT !.pc = "returned"]
    /\ UNCHANGED <<fs, callers, sv, loaded, raised>>

NextDiag ==
    \/ \E data \in DiagInputs, encoder \in Encoders : DiagCall(data, encoder)
    \/ DiagStep
    \/ DiagReturn

SpecDiag == InitDiag /\ [][NextDiag]_vars

\* the loop is not suspended for ever: an iteration that can run does run
SpecDiagFair ==
    InitDiag /\ [][NextDiag]_vars /\ WF_vars(DiagStep) /\ WF_vars(DiagReturn)

(***************************************************************************)
(* Properties.                                                             *)
(***************************************************************************)
\* the complete text a call of caller c is to put at the target path
NewText(c) == Encode(sv[c].data, 0, sv[c].encoder)

\* the file at the target path holds exactly the new text of caller c
HoldsNewText(c) ==
    /\ Encodable(sv[c].data, sv[c].encoder)
    /\ fs[TargetPath].exists
    /\ fs[TargetPath].content = NewText(c)

\* the temporary file of caller c holds a proper, non-empty part of the text
PartialTemp(c) ==
    /\ sv[c].fdesc # ""
    /\ Exists(fs, sv[c].fdesc)
    /\ Len(fs[sv[c].fdesc].content) > 0
    /\ Len(fs[sv[c].fdesc].content) < Len(sv[c].json_data)

\* C1: at every point of a save_json call, a crash or I/O failure between
\* any two of its steps included, the target path holds either what it held
\* when the call began (or is still absent) or the complete new text; never
\* a part of it.
C1_AtomicVisibility ==
    \A c \in callers :
        sv[c].pc # "idle" =>
            \/ fs[TargetPath] = sv[c].fs_before[TargetPath]
            \/ HoldsNewText(c)

\* C1 witness: the call died while its temporary file held part of the text,
\* and the target path still holds the differing prior file
C1_Witness ==
    \E c \in callers :
        /\ sv[c].pc = "crashed"
        /\ PartialTemp(c)
        /\ fs[TargetPath].exists
        /\ fs[TargetPath].content # NewText(c)

\* C2: when a call has failed, the target path is what it was when the call
\* began (content, existence, permissions); when it has succeeded, the
\* target path holds the full serialized new text.
C2_FailureLeavesTarget ==
    \A c \in callers :
        sv[c].pc = "done" =>
            IF sv[c].result = "ok"
            THEN HoldsNewText(c)
            ELSE fs[TargetPath] = sv[c].fs_before[TargetPath]

\* C2 witness: os.replace failed over an existing file with other content
C2_Witness ==
    \E c \in callers :
        /\ sv[c].pc = "done"
        /\ sv[c].result = "WriteError"
        /\ sv[c].fault = "replace"
        /\ sv[c].fs_before[TargetPath].exists
        /\ sv[c].fs_before[TargetPath].content # NewText(c)

\* C3: when a call has returned and its cleanup did not fail, the temporary
\* file the call created is gone (renamed or deleted), whichever step failed.
C3_NoStrayTempFile ==
    \A c \in callers :
        (sv[c].pc = "done" /\ ~sv[c].cleanup_error) =>
            (sv[c].fdesc = "" \/ ~Exists(fs, sv[c].fdesc))

\* C4: when serializing the data fails, the call ends with a
\* SerializationError whose message carries the formatted report of
\* find_paths_unserializable_data, no temporary file was ever created and
\* the directory is as it was when the call began.
C4_SerializationFailsFirst ==
    \A c \in callers :
        (sv[c].pc \notin {"idle", "dumps"} /\ ~json_dumps(sv[c].data, sv[c].encoder).ok) =>
            /\ sv[c].pc = "done"
            /\ sv[c].result = "SerializationError"
            /\ sv[c].msg = "Failed to serialize to JSON: " \o TargetPath
                           \o ". Bad data at "
                           \o format_unserializable_data(
                                  find_paths_unserializable_data(sv[c].data))
            /\ sv[c].fdesc = ""
            /\ fs = sv[c].fs_before

\* C4 witness: the partially bad structure was refused over an existing file
C4_Witness ==
    \E c \in callers :
        /\ sv[c].pc = "done"
        /\ sv[c].data = DataBad
        /\ sv[c].result = "SerializationError"
        /\ fs[TargetPath].exists

\* C5: an I/O failure while creating, writing or closing the temporary file,
\* changing its permissions or replacing the target makes the call end with
\* a WriteError that wraps the OSError; it never ends in success or with
\* another error.
C5_WriteErrorOnIOFailure ==
    \A c \in callers :
        (sv[c].pc = "done" /\ sv[c].fault # "") =>
            /\ sv[c].result = "WriteError"
            /\ sv[c].cause = "OSError"

\* C5 witness: os.chmod failed and the call has ended
C5_Witness ==
    \E c \in callers :
        /\ sv[c].pc = "done"
        /\ sv[c].fault = "chmod"
        /\ sv[c].result = "WriteError"

\* C6: a failure to delete the leftover temporary file does not change how
\* the call ends: success stays success, a WriteError stays that WriteError.
C6_CleanupNeverMasks ==
    \A c \in callers :
        (sv[c].pc = "done" /\ sv[c].cleanup_error) =>
            sv[c].result = IF sv[c].fault = "" THEN "ok" ELSE "WriteError"

\* C6 witness: os.replace failed, then os.remove failed as well
C6_Witness ==
    \E c \in callers :
        /\ sv[c].pc = "done"
        /\ sv[c].cleanup_error
        /\ sv[c].fault = "replace"
        /\ sv[c].result = "WriteError"
        /\ Exists(fs, sv[c].tmp_filename)

\* C7: when the file does not exist, load_json returns exactly the supplied
\* default (an empty list or mapping included), or {} when none was
\* supplied, and raises nothing; the default is returned only then.
C7_MissingFileDefault ==
    /\ (loaded.called /\ ~loaded.existed) =>
           /\ ~loaded.raised
           /\ loaded.from_default
           /\ loaded.value = IF loaded.default = PyNone THEN PyDict(<<>>)
                             ELSE loaded.default
    /\ (loaded.called /\ loaded.from_default) => ~loaded.existed

\* C7 witness: an absent file was loaded with an empty list as default
C7_Witness ==
    /\ loaded.called
    /\ ~loaded.existed
    /\ loaded.default = PyList(<<>>)
    /\ loaded.value = PyList(<<>>)

RECURSIVE IsDocument(_)
IsDocument(v) ==
    CASE v.t \in {"null", "bool", "int", "str"} -> TRUE
      [] v.t = "list" -> \A n \in 1..Len(v.items) : IsDocument(v.items[n])
      [] v.t = "dict" -> \A n \in 1..Len(v.items) :
                             v.items[n][1].t = "str" /\ IsDocument(v.items[n][2])
      [] OTHER -> FALSE

\* structural equality of two values, ignoring the order of mapping keys
RECURSIVE StructEq(_, _)
StructEq(a, b) ==
    /\ a.t = b.t
    /\ CASE a.t = "list" ->
              /\ Len(a.items) = Len(b.items)
              /\ \A n \in 1..Len(a.items) : StructEq(a.items[n], b.items[n])
         [] a.t = "dict" ->
              /\ Len(a.items) = Len(b.items)
              /\ \A n \in 1..Len(a.items) : \E m \in 1..Len(b.items) :
                     /\ a.items[n][1] = b.items[m][1]
                     /\ StructEq(a.items[n][2], b.items[m][2])
         [] OTHER -> a = b

\* C9: after a successful save of a Document, load_json returns a value
\* structurally equal to it, whatever the default.
C9_RoundTrip ==
    \A c \in callers :
        (sv[c].pc = "done" /\ sv[c].result = "ok" /\ IsDocument(sv[c].data)) =>
            \A default \in Defaults :
                LET r == load_json(fs, default, FALSE)
                IN ~r.raised /\ ~r.from_default /\ StructEq(r.value, sv[c].data)

\* C9 witness: the nested Document was saved over another file and the
\* reader has loaded it back
C9_Witness ==
    \E c \in callers :
        /\ sv[c].pc = "done"
        /\ sv[c].result = "ok"
        /\ sv[c].data = DocNested
        /\ sv[c].calls = 1
        /\ sv[c].fs_before[TargetPath].exists
        /\ loaded.called
        /\ ~loaded.raised
        /\ loaded.value = DocNested

\* C10: after a successful save the target file has mode 0o600 when private
\* is true and 0o644 when it is false, whatever mode the file it replaced had.
C10_PermissionsAfterSave ==
    \A c \in callers :
        (sv[c].pc = "done" /\ sv[c].result = "ok") =>
            /\ fs[TargetPath].exists
            /\ fs[TargetPath].mode = IF sv[c].private THEN MODE_0600 ELSE MODE_0644

\* C10 witness: a private save replaced a file that had a wider mode
C10_Witness ==
    \E c \in callers :
        /\ sv[c].pc = "done"
        /\ sv[c].result = "ok"
        /\ sv[c].private
        /\ sv[c].calls = 1
        /\ sv[c].fs_before[TargetPath].exists
        /\ sv[c].fs_before[TargetPath].mode > MODE_0644
        /\ fs[TargetPath].mode = MODE_0600

\* the steps between the creation of the temporary file and its rename
Holding == {"write", "close", "chmod", "replace"}

\* C11: when two callers save to the same path concurrently and both calls
\* have ended, the path holds exactly the complete text of the caller whose
\* os.replace succeeded last; while both hold a temporary file the two files
\* are different ones; and when both calls have succeeded no temporary file
\* is left in the directory.
C11_LastReplaceWins ==
    /\ \A c \in callers : \A d \in callers \ {c} :
           (sv[c].pc \in Holding /\ sv[d].pc \in Holding) => sv[c].fdesc # sv[d].fdesc
    /\ (\A c \in callers : sv[c].pc = "done") =>
           /\ \A c \in callers :
                  (sv[c].replaced > 0 /\ \A d \in callers : sv[d].replaced <= sv[c].replaced)
                      => HoldsNewText(c)
           /\ (\A c \in callers : sv[c].result = "ok") =>
                  \A n \in TmpNames : ~Exists(fs, n)

\* C11 witness: caller 2 entered while caller 1's temporary file existed,
\* both calls succeeded with different data, and caller 1 replaced last
C11_Witness ==
    /\ callers = {1, 2}
    /\ \A c \in callers : sv[c].pc = "done" /\ sv[c].result = "ok"
    /\ sv[1].data # sv[2].data
    /\ sv[2].fs_before[sv[1].fdesc].exists
    /\ sv[2].replaced = 1
    /\ sv[1].replaced = 2
    /\ HoldsNewText(1)

\* C12: when a caller has made the same successful call twice in a row on
\* a directory without temporary files, the file after the second call is
\* identical to the file after the first (content and permissions) and the
\* directory holds no temporary file.
C12_Idempotent ==
    \A c \in callers :
        (sv[c].pc = "done" /\ sv[c].calls = 2
         /\ sv[c].prev_result = "ok" /\ sv[c].result = "ok") =>
            /\ fs[TargetPath] = sv[c].fs_before[TargetPath]
            /\ HoldsNewText(c)
            /\ \A n \in TmpNames : ~Exists(fs, n)

\* C12 witness: the nested Document was saved twice, not private
C12_Witness ==
    \E c \in callers :
        /\ sv[c].pc = "done"
        /\ sv[c].calls = 2
        /\ sv[c].prev_result = "ok"
        /\ sv[c].result = "ok"
        /\ sv[c].data = DocNested
        /\ ~sv[c].private
        /\ sv[c].replaced = 1
        /\ fs[TargetPath].mode = MODE_0644

(***************************************************************************)
(* Properties of find_paths_unserializable_data.                           *)
(***************************************************************************)
\* path p is an initial part of path q
Prefix(p, q) == Len(p) <= Len(q) /\ SubSeq(q, 1, Len(p)) = p
\* the <<path, value>> entries of a report, and its paths
ReportEntries(report) == {report[n] : n \in DOMAIN report}
ReportPaths(report) == {report[n][1] : n \in DOMAIN report}
\* the pairs of a queue
QueuePairs(queue) == {queue[n] : n \in DOMAIN queue}
\* the call has started (it may have returned)
DiagStarted == dg.pc \in {"loop", "returned"}

\* the label put in parentheses after the path of a convertible
Label(v) == v.cls \o (IF v.cls \in {"State", "Event"} THEN ": " \o v.ident ELSE "")
\* the node a popped pair stands for once as_dict() is applied, and its path
Rendered(pair) == IF pair[1].t = "convertible" THEN pair[1].as_dict ELSE pair[1]
RenderedPath(pair) ==
    IF pair[1].t = "convertible" THEN pair[2] \o "(" \o Label(pair[1]) \o ")" ELSE pair[2]

\* the direct children of a pair, each with its path
Children(pair) ==
    LET obj == Rendered(pair)
        p == RenderedPath(pair)
    IN CASE obj.t = "dict" ->
              {<<obj.items[n][2], p \o "." \o PyStrOf(obj.items[n][1])>> : n \in DOMAIN obj.items}
         [] obj.t = "list" ->
              {<<obj.items[n], p \o "[" \o IntStr(n - 1) \o "]">> : n \in DOMAIN obj.items}
         [] OTHER -> {}

RECURSIVE IsPlain(_)
\* v is built from mappings with valid keys, sequences and scalars only
IsPlain(v) ==
    CASE v.t = "list" -> \A n \in DOMAIN v.items : IsPlain(v.items[n])
      [] v.t = "dict" -> \A n \in DOMAIN v.items :
                             KeyText(v.items[n][1]) # "" /\ IsPlain(v.items[n][2])
      [] v.t = "convertible" -> FALSE
      [] OTHER -> TRUE

RECURSIVE BadTerminals(_, _)
\* the terminal nodes of v that json.dumps cannot encode, each with its path
BadTerminals(v, p) ==
    CASE v.t = "dict" ->
           UNION {BadTerminals(v.items[n][2], p \o "." \o PyStrOf(v.items[n][1])) :
                      n \in DOMAIN v.items}
      [] v.t = "list" ->
           UNION {BadTerminals(v.items[n], p \o "[" \o IntStr(n - 1) \o "]") :
                      n \in DOMAIN v.items}
      [] OTHER -> IF Encodable(v, "None") THEN {} ELSE {<<p, v>>}

C14_SameEncoder ==
    dg.pc = "returned" =>
        \A e \in ReportEntries(dg.invalid) : ~Encodable(e[2], dg.encoder)

\* C15: once a popped node has encoded on its own, none of its descendants is
\* ever put on the queue and no path of the report is the node's path or
\* extends it.
C15_EncodableSkipped ==
    DiagStarted =>
        \A n \in DOMAIN dg.dequeued :
            Encodable(dg.dequeued[n][1], "None") =>
                /\ \A q \in dg.enqueued :
                       q # dg.dequeued[n] => ~Prefix(dg.dequeued[n][2], q[2])
                /\ \A q \in dg.enqueued : q \notin Children(dg.dequeued[n])
                /\ \A path \in ReportPaths(dg.invalid) : ~Prefix(dg.dequeued[n][2], path)

\* C15 witness: a list with elements was popped, encoded, and the call went
\* on to report a sibling
C15_Witness ==
    /\ dg.pc = "returned"
    /\ dg.invalid # <<>>
    /\ \E n \in DOMAIN dg.dequeued :
           /\ dg.dequeued[n][1] = PyList(<<PyInt(2), PyStr("x")>>)
           /\ Children(dg.dequeued[n]) # {}
           /\ n < Len(dg.dequeued)

\* the traversal the specification describes: a failing convertible is put
\* back on the queue as its rendering, at the annotated path
ReenqueueStep(to_process, invalid) ==
    IF Head(to_process)[1].t = "convertible"
    THEN [to_process |-> Append(Tail(to_process),
                                <<Rendered(Head(to_process)), RenderedPath(Head(to_process))>>),
          invalid |-> invalid]
    ELSE FindPathsStep(to_process, invalid)

RECURSIVE ReenqueueLoop(_, _)
ReenqueueLoop(to_process, invalid) ==
    IF to_process = <<>> THEN invalid
    ELSE LET s == ReenqueueStep(to_process, invalid)
         IN ReenqueueLoop(s.to_process, s.invalid)

\* C16 as stated: the report is the one the traversal that re-enqueues the
\* rendering produces, entry for entry in the same order.
C16_AsIfReenqueued ==
    dg.pc = "returned" =>
        dg.invalid = ReenqueueLoop(<< <<dg.bad_data, "$">> >>, <<>>)

\* C16: a popped convertible whose as_dict() is a mapping is handled in the
\* same iteration: the rendering itself is never put on the queue, its values
\* under valid keys are enqueued at the path annotated with the label, no
\* convertible is a value of the report, a rendering that encodes adds no
\* entry, and the report has the same entries as re-enqueueing the rendering
\* would give (in possibly another order).
C16_RenderingInPlace ==
    DiagStarted =>
        /\ \A e \in ReportEntries(dg.invalid) : e[2].t # "convertible"
        /\ \A n \in DOMAIN dg.dequeued :
               LET pair == dg.dequeued[n]
               IN pair[1].t = "convertible" =>
                      /\ <<Rendered(pair), RenderedPath(pair)>> \notin dg.enqueued
                      /\ \A m \in DOMAIN Rendered(pair).items :
                             KeyText(Rendered(pair).items[m][1]) # "" =>
                                 <<Rendered(pair).items[m][2],
                                   RenderedPath(pair) \o "."
                                       \o PyStrOf(Rendered(pair).items[m][1])>> \in dg.enqueued
                      /\ \A path \in ReportPaths(dg.invalid) :
                             Prefix(pair[2], path) => Prefix(RenderedPath(pair), path)
                      /\ Encodable(Rendered(pair), "None") =>
                             \A path \in ReportPaths(dg.invalid) : ~Prefix(pair[2], path)
        /\ dg.pc = "returned" =>
               ReportEntries(dg.invalid)
                   = ReportEntries(ReenqueueLoop(<< <<dg.bad_data, "$">> >>, <<>>))

\* C16 witness: {"a": State, "b": [set()]} where the State's as_dict() holds
\* an object(); the entry under the State comes before the one under "b"
C16_Witness ==
    /\ dg.pc = "returned"
    /\ dg.bad_data = PyDict(<< <<PyStr("a"), StateBad>>, <<PyStr("b"), PyList(<<PySet>>)>> >>)
    /\ dg.invalid = << <<"$.a(State: x).b", PyObject>>, <<"$.b[0]", PySet>> >>

\* C17: in the iteration that pops a failing mapping (or a convertible
\* rendered as one) with path p, every key that json.dumps rejects adds
\* exactly one entry p<key: k> holding the key and its value is not enqueued;
\* every other key has its value enqueued at p.k and adds no entry.
C17_KeysOfFailingMapping ==
    [][(dg.pc = "loop" /\ dg'.pc = "loop" /\ dg.to_process # <<>> /\ dg' # dg) =>
          LET head == Head(dg.to_process)
              obj == Rendered(head)
              p == RenderedPath(head)
              new == SubSeq(dg'.to_process, Len(dg.to_process), Len(dg'.to_process))
              gained == ReportEntries(dg'.invalid) \ ReportEntries(dg.invalid)
              bad == {n \in DOMAIN obj.items : KeyText(obj.items[n][1]) = ""}
          IN (~Encodable(head[1], "None") /\ obj.t = "dict") =>
                 /\ \A n \in bad :
                        LET k == obj.items[n][1]
                        IN /\ <<p \o "<key: " \o PyStrOf(k) \o ">", k>> \in gained
                           /\ Cardinality({m \in DOMAIN dg'.invalid :
                                  dg'.invalid[m][1] = p \o "<key: " \o PyStrOf(k) \o ">"}) = 1
                           /\ \A q \in QueuePairs(new) : q[2] # p \o "." \o PyStrOf(k)
                 /\ \A n \in DOMAIN obj.items \ bad :
                        LET k == obj.items[n][1]
                        IN /\ <<obj.items[n][2], p \o "." \o PyStrOf(k)>> \in QueuePairs(new)
                           /\ \A e \in gained :
                                  e[1] \notin {p \o "<key: " \o PyStrOf(k) \o ">",
                                               p \o "." \o PyStrOf(k)}
                 /\ Cardinality(gained) = Cardinality(bad)
                 /\ Len(new) = Len(obj.items) - Cardinality(bad)
      ]_vars

\* C17 witness: {(1, 2): object(), "a": set()} was diagnosed
C17_Witness ==
    /\ dg.pc = "returned"
    /\ dg.bad_data = PyDict(<< <<PyTupleKey, PyObject>>, <<PyStr("a"), PySet>> >>)
    /\ <<"$<key: (1, 2)>", PyTupleKey>> \in ReportEntries(dg.invalid)
    /\ <<PySet, "$.a">> \in dg.enqueued
    /\ \A q \in dg.enqueued : q[1] # PyObject

\* no node is popped twice, and whatever was put on the queue is the root or
\* a direct child of a node popped before
NoRevisit ==
    DiagStarted =>
        /\ \A i, j \in DOMAIN dg.dequeued :
               i # j => dg.dequeued[i][2] # dg.dequeued[j][2]
        /\ \A i, j \in DOMAIN dg.to_process :
               i # j => dg.to_process[i][2] # dg.to_process[j][2]
        /\ \A q \in QueuePairs(dg.to_process) :
               /\ q \in dg.enqueued
               /\ \A n \in DOMAIN dg.dequeued : dg.dequeued[n][2] # q[2]
        /\ \A q \in dg.enqueued :
               \/ q = <<dg.bad_data, "$">>
               \/ \E n \in DOMAIN dg.dequeued : q \in Children(dg.dequeued[n])

\* C18: a call of find_paths_unserializable_data pops each node at most once,
\* only enqueues direct children of nodes it has popped, and returns, its
\* queue empty.
C18_Terminates ==
    /\ []NoRevisit
    /\ (dg.pc = "loop") ~> (dg.pc = "returned" /\ dg.to_process = <<>>)

\* C18 witness: the call for {"a": [1, set(), {"b": object()}]} returned after
\* popping its six nodes
C18_Witness ==
    /\ dg.pc = "returned"
    /\ dg.bad_data = DataBad
    /\ Len(dg.dequeued) = 6
    /\ Cardinality(dg.enqueued) = 6
    /\ dg.to_process = <<>>

(***************************************************************************)
(* Properties of the SerializationError message and of the permissions.    *)
(***************************************************************************)
RECURSIVE FormatClosed(_)
\* the documented format: <path>=<value>(<type>), comma separated
FormatClosed(data) ==
    IF data = <<>> THEN ""
    ELSE data[1][1] \o "=" \o PyStrOf(data[1][2]) \o "(" \o PyTypeOf(data[1][2]) \o ")"
         \o (IF Len(data) > 1 THEN ", " \o FormatClosed(Tail(data)) ELSE "")

\* C19: the message of a SerializationError lists every entry of the report
\* as path=value(type), the type between a matching pair of parentheses, the
\* items joined by ", " in report order.
C19_MessageFormat ==
    \A c \in callers :
        (sv[c].pc = "done" /\ sv[c].result = "SerializationError") =>
            sv[c].msg = "Failed to serialize to JSON: " \o TargetPath \o ". Bad data at "
                        \o FormatClosed(find_paths_unserializable_data(sv[c].data))

\* C20: in a private call the temporary file has mode 0o600 for as long as it
\* exists and the target has mode 0o600 from the replace on; in a call that is
\* not private the temporary file is already 0o644 when the replace step is
\* reached, so the target never shows the new text with another mode.
C20_PrivateNeverWidened ==
    \A c \in callers :
        /\ (sv[c].private /\ sv[c].fdesc # "" /\ Exists(fs, sv[c].fdesc)) =>
               fs[sv[c].fdesc].mode = MODE_0600
        /\ (sv[c].private /\ sv[c].replaced > 0) =>
               fs[TargetPath].exists /\ fs[TargetPath].mode = MODE_0600
        /\ (~sv[c].private /\ sv[c].pc = "replace") =>
               fs[sv[c].fdesc].mode = MODE_0644
        /\ (~sv[c].private /\ sv[c].replaced > 0) =>
               fs[TargetPath].exists /\ fs[TargetPath].mode = MODE_0644

\* C20 witness: a private call is about to replace a target that is readable
\* by others; the temporary file holds the whole new text with mode 0o600
C20_Witness ==
    \E c \in callers :
        /\ sv[c].private
        /\ sv[c].pc = "replace"
        /\ fs[sv[c].fdesc].content = NewText(c)
        /\ fs[sv[c].fdesc].mode = MODE_0600
        /\ fs[TargetPath].exists
        /\ fs[TargetPath].mode # MODE_0600

====
